---- MODULE Spec2Model ----
(***************************************************************************)
(* Session-state coordinator of the CDP Strands Agent console.             *)
(*                                                                         *)
(* The two Streamlit entry points, src/app.py and src/app1.py, keep one    *)
(* result key and one processing_* flag per analysis slot in               *)
(* st.session_state.  Streamlit executes main() from the top on every      *)
(* widget event and on every st.rerun(); st.rerun() aborts the run it is   *)
(* called in.  One step of this model is one whole execution of main().    *)
(* The third entry point, src/run.py, is a command loop at a terminal: one *)
(* step is one iteration of the loop, or one client connected or stopped.  *)
(*                                                                         *)
(* Python values are encoded as tuples of strings:                         *)
(*   <<"missing">>   the key is not in st.session_state                    *)
(*   <<"None">>      None                                                  *)
(*   <<"True">>, <<"False">>   booleans                                    *)
(*   <<"str", t>>    the string t                                          *)
(*                                                                         *)
(* Five specifications share the variables:                                *)
(*   Spec              a session of clicks and reruns                      *)
(*   LiveSpec          Spec with every scheduled rerun eventually run      *)
(*   RenderSpec        the page shown after one job, for any response      *)
(*   ConstructionSpec  the construction of the agent and its MCP clients   *)
(*   CliSpec           run.py: construction, command loop and cleanup      *)
(***************************************************************************)
EXTENDS Naturals, Sequences, FiniteSets, TLC

VARIABLES
    app,            \* the entry point that runs: "app.py", "app1.py" or "run.py"
    session_state,  \* st.session_state: key -> value
    rerun,          \* a script run is scheduled (page load, or st.rerun() was raised)
    last,           \* the widget event of the latest execution of main() and what it did
    agent_calls,    \* per slot: agent invocations since the session start or the last clear
    triggered,      \* per slot: the trigger handler ran since the session start or the last clear
    clicks,         \* number of widget events so far
    page,           \* per slot: what the latest execution of main() put in the slot's tab
    construction,   \* the construction of the agent: initialize_agent(), main() of run.py
    cli             \* the command loop of run.py: position, files written, latest command

vars == <<app, session_state, rerun, last, agent_calls, triggered, clicks, page, construction, cli>>

\* Bound on the number of widget events (button clicks) of one session.
MaxClicks == 3

\* Bound on the length, in tokens, of the agent's responses in RenderSpec.
MaxTokens == 3

\* Commands entered at the prompt of run.py in one process.
MaxCommands == 2

-----------------------------------------------------------------------------
(* Python values *)

Missing == <<"missing">>
None == <<"None">>
True == <<"True">>
False == <<"False">>
Str(t) == <<"str", t>>

IsStr(v) == Len(v) = 2

\* Python truthiness, as used by `if x` and `not x`.
Truthy(v) == v = True \/ (IsStr(v) /\ v[2] # "")

\* `x is not None`
IsNotNone(v) == v # None

\* st.session_state.get(key, default)
Get(st, key, default) == IF st[key] = Missing THEN default ELSE st[key]

\* f"{v}" of a value placed in a prompt or a message
Format(v) == IF IsStr(v) THEN v[2] ELSE v[1]

-----------------------------------------------------------------------------
(* Entry points, slots and their session keys *)

Apps == {"app.py", "app1.py"}

\* The slots in the order main() reaches their tabs.
\* The tabs with the cost tab moved to the front.
TabOrder_CostFirst(a) ==
    IF a = "app.py"
    THEN << "cost_analysis", "similar_projects_research", "requirements_analysis",
            "architecture_analysis", "repository_structure", "typescript_cdk",
            "python_cdk", "documentation" >>
    ELSE << "cost_analysis", "requirements_analysis", "architecture_analysis",
            "typescript_cdk", "python_cdk", "documentation" >>

TabOrder(a) ==
    IF a = "app.py"
    THEN << "similar_projects_research", "requirements_analysis", "architecture_analysis",
            "repository_structure", "typescript_cdk", "python_cdk",
            "cost_analysis", "documentation" >>
    ELSE << "requirements_analysis", "architecture_analysis",
            "typescript_cdk", "python_cdk", "cost_analysis", "documentation" >>

Slots(a) == { TabOrder(a)[i] : i \in 1..Len(TabOrder(a)) }

AllSlots == Slots("app.py")

\* The processing flag each slot's trigger button sets.
ProcessingKey(slot) ==
    CASE slot = "similar_projects_research" -> "processing_similar_projects"
      [] slot = "requirements_analysis"     -> "processing_requirements"
      [] slot = "architecture_analysis"     -> "processing_architecture"
      [] slot = "repository_structure"      -> "processing_repo_structure"
      [] slot = "typescript_cdk"            -> "processing_typescript"
      [] slot = "python_cdk"                -> "processing_python"
      [] slot = "cost_analysis"             -> "processing_cost"
      [] slot = "documentation"             -> "processing_docs"

\* analysis_types as main() binds it at the top of every run.
analysis_types(a) ==
    IF a = "app.py"
    THEN { "similar_projects_research", "requirements_analysis", "architecture_analysis",
           "typescript_cdk", "python_cdk", "cost_analysis", "documentation",
           "project_initialized" }
    ELSE { "requirements_analysis", "architecture_analysis", "typescript_cdk", "python_cdk",
           "cost_analysis", "documentation", "project_initialized" }

\* processing_types as main() binds it at the top of every run.
processing_types(a) ==
    IF a = "app.py"
    THEN { "processing_similar_projects", "processing_requirements",
           "processing_architecture", "processing_typescript", "processing_python",
           "processing_cost", "processing_docs" }
    ELSE { "processing_requirements", "processing_architecture", "processing_typescript",
           "processing_python", "processing_cost", "processing_docs" }

Keys ==
    AllSlots \cup { ProcessingKey(s) : s \in AllSlots }
             \cup { "project_initialized", "project_name", "requirements_text" }

\* `None if 'processing_' not in analysis_type else False`
DefaultOf(key) == IF key \in { ProcessingKey(s) : s \in AllSlots } THEN False ELSE None

\* The loop that gives every listed key its default when it is not yet in the session.
InitSessionState(st, a) ==
    [ k \in Keys |->
        IF k \in (analysis_types(a) \cup processing_types(a)) /\ st[k] = Missing
        THEN DefaultOf(k) ELSE st[k] ]

-----------------------------------------------------------------------------
(* The external agent and the analysis functions *)

\* What one call agent(prompt) can do: return a response whose str() is text,
\* or raise an exception whose str() is text.
Responses == {"", "ok"}
Messages == {"boom"}

AgentOutcomes ==
    { [kind |-> "return", text |-> t] : t \in Responses } \cup
    { [kind |-> "raise", text |-> m] : m \in Messages }

NoOutcome == [kind |-> "none", text |-> ""]

\* A template field the function's prompt does not have.
NotAParam == <<"n/a">>

\* The prompt of one analysis function: the template and the values formatted into it.
Prompt(func, project_name, requirements_text, similar, repo) ==
    [ func |-> func,
      project_name |-> Format(project_name),
      requirements_text |-> IF requirements_text = NotAParam THEN "n/a"
                            ELSE Format(requirements_text),
      similar_projects_context |-> IF similar = NotAParam THEN "n/a" ELSE Format(similar),
      repo_structure_context |-> IF repo = NotAParam THEN "n/a" ELSE Format(repo) ]

\* try: response = agent(prompt); return str(response)
\* except Exception as e: return f"<label> failed: {e}"
AgentTry(outcome, prompt, label) ==
    [ result |-> IF outcome.kind = "return"
                 THEN Str(outcome.text)
                 ELSE Str(label \o " failed: " \o outcome.text),
      prompts |-> << prompt >> ]

\* The i-th positional argument after the agent, or the parameter's default.
Arg(args, i, default) == IF Len(args) >= i THEN args[i] ELSE default

(* src/app.py; a function defined twice is the later definition, which is the
   one the module binds when main() runs. *)

run_similar_projects_research(outcome, args) ==
    AgentTry(outcome,
             Prompt("run_similar_projects_research", args[2], args[1], NotAParam, NotAParam),
             "Similar projects research")

run_requirements_analysis(outcome, args) ==
    AgentTry(outcome,
             Prompt("run_requirements_analysis", args[2], args[1], NotAParam, NotAParam),
             "Requirements analysis")

run_repository_structure_analysis(outcome, args) ==
    AgentTry(outcome,
             Prompt("run_repository_structure_analysis", args[1], NotAParam, NotAParam,
                    NotAParam),
             "Repository structure analysis")

run_architecture_analysis(outcome, args) ==
    AgentTry(outcome,
             Prompt("run_architecture_analysis", args[2], args[1], Arg(args, 3, Str("")),
                    NotAParam),
             "Architecture analysis")

run_typescript_cdk_generation(outcome, args) ==
    AgentTry(outcome,
             Prompt("run_typescript_cdk_generation", args[2], args[1],
                    Arg(args, 3, Str("")), NotAParam),
             "TypeScript CDK generation")

run_python_cdk_generation(outcome, args) ==
    AgentTry(outcome,
             Prompt("run_python_cdk_generation", args[2], args[1], Arg(args, 3, Str("")),
                    NotAParam),
             "Python CDK generation")

\* run_cost_analysis without its own except clause: the exception reaches
\* background_analysis, which reports it under its own label.
run_cost_analysis_Unhandled(outcome, args) ==
    [ result |-> IF outcome.kind = "return"
                 THEN Str(outcome.text)
                 ELSE Str("Background analysis failed: " \o outcome.text),
      prompts |-> << Prompt("run_cost_analysis", args[2], args[1], NotAParam, NotAParam) >> ]

run_cost_analysis(outcome, args) ==
    AgentTry(outcome,
             Prompt("run_cost_analysis", args[2], args[1], NotAParam, NotAParam),
             "Cost analysis")

run_documentation_generation(outcome, args) ==
    AgentTry(outcome,
             Prompt("run_documentation_generation", args[2], args[1],
                    Arg(args, 3, Str("")), NotAParam),
             "Documentation generation")

(* src/app1.py *)

app1_run_requirements_analysis(outcome, args) ==
    AgentTry(outcome,
             Prompt("run_requirements_analysis", args[2], args[1], NotAParam, NotAParam),
             "Requirements analysis")

app1_run_architecture_analysis(outcome, args) ==
    AgentTry(outcome,
             Prompt("run_architecture_analysis", args[2], args[1], NotAParam, NotAParam),
             "Architecture analysis")

app1_run_typescript_cdk_generation(outcome, args) ==
    AgentTry(outcome,
             Prompt("run_typescript_cdk_generation", args[2], args[1], NotAParam,
                    NotAParam),
             "TypeScript CDK generation")

app1_run_python_cdk_generation(outcome, args) ==
    AgentTry(outcome,
             Prompt("run_python_cdk_generation", args[2], args[1], NotAParam, NotAParam),
             "Python CDK generation")

app1_run_cost_analysis(outcome, args) ==
    AgentTry(outcome,
             Prompt("run_cost_analysis", args[2], args[1], NotAParam, NotAParam),
             "Cost analysis")

app1_run_documentation_generation(outcome, args) ==
    AgentTry(outcome,
             Prompt("run_documentation_generation", args[2], args[1], NotAParam,
                    NotAParam),
             "Documentation generation")

\* The least and the greatest number of positional arguments, the agent included,
\* that the function bound to the name accepts.
Positional(a, func) ==
    IF a = "app.py"
    THEN CASE func = "run_repository_structure_analysis" -> <<2, 2>>
           [] func \in { "run_similar_projects_research", "run_requirements_analysis",
                         "run_cost_analysis" } -> <<3, 3>>
           [] OTHER -> <<3, 4>>
    ELSE <<3, 3>>

Digit(n) ==
    CASE n = 0 -> "0" [] n = 1 -> "1" [] n = 2 -> "2" [] n = 3 -> "3" [] n = 4 -> "4"
      [] n = 5 -> "5" [] n = 6 -> "6" [] n = 7 -> "7" [] n = 8 -> "8" [] n = 9 -> "9"

\* str() of the TypeError Python raises for a call with too many positional arguments.
TypeErrorText(func, lo, hi, given) ==
    func \o "() takes "
         \o (IF lo = hi THEN Digit(lo) ELSE "from " \o Digit(lo) \o " to " \o Digit(hi))
         \o " positional arguments but " \o Digit(given)
         \o (IF given = 1 THEN " was given" ELSE " were given")

\* analysis_func(*args), with the agent as first argument.
CallAnalysis(a, func, args, outcome) ==
    IF a = "app.py"
    THEN CASE func = "run_similar_projects_research" ->
                  run_similar_projects_research(outcome, args)
           [] func = "run_requirements_analysis" -> run_requirements_analysis(outcome, args)
           [] func = "run_repository_structure_analysis" ->
                  run_repository_structure_analysis(outcome, args)
           [] func = "run_architecture_analysis" -> run_architecture_analysis(outcome, args)
           [] func = "run_typescript_cdk_generation" ->
                  run_typescript_cdk_generation(outcome, args)
           [] func = "run_python_cdk_generation" -> run_python_cdk_generation(outcome, args)
           [] func = "run_cost_analysis" -> run_cost_analysis(outcome, args)
           [] func = "run_documentation_generation" ->
                  run_documentation_generation(outcome, args)
    ELSE CASE func = "run_requirements_analysis" ->
                  app1_run_requirements_analysis(outcome, args)
           [] func = "run_architecture_analysis" ->
                  app1_run_architecture_analysis(outcome, args)
           [] func = "run_typescript_cdk_generation" ->
                  app1_run_typescript_cdk_generation(outcome, args)
           [] func = "run_python_cdk_generation" ->
                  app1_run_python_cdk_generation(outcome, args)
           [] func = "run_cost_analysis" -> app1_run_cost_analysis(outcome, args)
           [] func = "run_documentation_generation" ->
                  app1_run_documentation_generation(outcome, args)

\* try: return analysis_func(*args)
\* except Exception as e: return f"Background analysis failed: {e}"
background_analysis(a, func, args, outcome) ==
    LET lo == Positional(a, func)[1]
        hi == Positional(a, func)[2]
        given == Len(args) + 1
    IN  IF given >= lo /\ given <= hi
        THEN CallAnalysis(a, func, args, outcome)
        ELSE [ result |-> Str("Background analysis failed: "
                              \o TypeErrorText(func, lo, hi, given)),
               prompts |-> << >> ]

-----------------------------------------------------------------------------
(* Construction of the agent: initialize_agent() of app.py and app1.py, main()
   of run.py *)

EntryPoints == Apps \cup {"run.py"}

\* mcp_clients, by the names the code gives them, in the order of the list.
mcp_clients == << "AWS Docs", "AWS CDK", "AWS Cost", "AWS Diagram", "GitHub" >>

\* What the two calls on one client can do: both return, client.start() raises,
\* or client.list_tools_sync() raises.
ConnectOutcomes == {"ok", "start raises", "list_tools_sync raises"}

\* What Agent(tools=working_clients, ...) can do.  Agent() without tools
\* returns: both the branch for no client and the except clause rely on it.
AgentOutcomesWithTools == {"ok", "raises"}

NoAgent == [ built |-> FALSE, tools |-> << >> ]

Agent(tools) == [ built |-> TRUE, tools |-> tools ]

\* The state of the construction: the position in the code, the outcome of
\* each client so far, the clients whose start() returned, working_clients,
\* what Agent(tools=...) did, and the pair the function returned.
Construction(pc, outcomes, started, working_clients, agent_outcome, agent, returned_clients) ==
    [ pc |-> pc, outcomes |-> outcomes, started |-> started,
      working_clients |-> working_clients, agent_outcome |-> agent_outcome,
      agent |-> agent, returned_clients |-> returned_clients ]

\* Before the loop over mcp_clients.
ConstructionStart == Construction("connect", << >>, << >>, << >>, "none", NoAgent, << >>)

\* The session model takes the agent as constructed.
Constructed == Construction("session", << >>, << >>, << >>, "none", NoAgent, << >>)

\* One iteration of `for name, client in mcp_clients:` with its try / except.
ConnectNextClient(c, outcome) ==
    LET name == mcp_clients[Len(c.outcomes) + 1]
    IN  Construction(
            IF Len(c.outcomes) + 1 = Len(mcp_clients) THEN "build" ELSE "connect",
            Append(c.outcomes, outcome),
            IF outcome = "start raises" THEN c.started ELSE Append(c.started, name),
            IF outcome = "ok" THEN Append(c.working_clients, name) ELSE c.working_clients,
            c.agent_outcome, c.agent, c.returned_clients)

\* `if len(working_clients) == 0: agent = Agent() else: agent = Agent(tools=...)`
\* and the return; in app.py and app1.py inside `try: ... except Exception:
\* return Agent(), []`, in run.py with no handler around it.
BuildAgent(c, a, outcome) ==
    IF Len(c.working_clients) = 0
    THEN Construction("returned", c.outcomes, c.started, c.working_clients, "none",
                      Agent(<< >>), c.working_clients)
    ELSE IF outcome = "ok"
    THEN Construction("returned", c.outcomes, c.started, c.working_clients, outcome,
                      Agent(c.working_clients), c.working_clients)
    ELSE IF a \in Apps
    THEN Construction("returned", c.outcomes, c.started, c.working_clients, outcome,
                      Agent(<< >>), << >>)
    ELSE Construction("raised", c.outcomes, c.started, c.working_clients, outcome,
                      NoAgent, << >>)

-----------------------------------------------------------------------------
(* The command loop of run.py: the `__main__` block *)

\* Python's str methods that the loop uses, on the characters of the inputs.
UpperCase == "ABCDEFGHIJKLMNOPQRSTUVWXYZ"
LowerCase == "abcdefghijklmnopqrstuvwxyz"

RECURSIVE lower(_)
lower(s) ==
    IF s = "" THEN ""
    ELSE LET ch == SubSeq(s, 1, 1)
             up == { i \in 1..Len(UpperCase) : SubSeq(UpperCase, i, i) = ch }
         IN  (IF up = {} THEN ch
              ELSE LET i == CHOOSE i \in up : TRUE IN SubSeq(LowerCase, i, i))
             \o lower(SubSeq(s, 2, Len(s)))

startswith(s, prefix) == Len(s) >= Len(prefix) /\ SubSeq(s, 1, Len(prefix)) = prefix

\* s[n:]
SliceFrom(s, n) == SubSeq(s, n + 1, Len(s))

RECURSIVE lstrip(_)
lstrip(s) == IF s # "" /\ SubSeq(s, 1, 1) = " " THEN lstrip(SubSeq(s, 2, Len(s))) ELSE s

RECURSIVE rstrip(_)
rstrip(s) ==
    IF s # "" /\ SubSeq(s, Len(s), Len(s)) = " " THEN rstrip(SubSeq(s, 1, Len(s) - 1)) ELSE s

strip(s) == rstrip(lstrip(s))

\* What input() does: it returns a line, or raises KeyboardInterrupt (Ctrl-C)
\* or EOFError (end of the standard input).
Line(text) == [ kind |-> "line", text |-> text ]
InputRaises(exc) == [ kind |-> exc, text |-> "" ]
NoLine == [ kind |-> "none", text |-> "" ]

\* The agent's response object and its string form.
Response(text) == [ message |-> text ]
str(response) == response.message

\* The files under projects/: path -> content.
NoFile == <<"no file">>
AnalysisPath(project_name) == "projects/" \o project_name \o "/complete_analysis.md"

\* A save that opens the file for appending.
save_project_analysis_Append(files, project_name, analysis_response) ==
    [ p \in DOMAIN files \cup { AnalysisPath(project_name) } |->
        IF p # AnalysisPath(project_name) THEN files[p]
        ELSE IF p \in DOMAIN files THEN files[p] \o str(analysis_response)
        ELSE str(analysis_response) ]

\* save_project_analysis(): os.makedirs(..., exist_ok=True), then open(..., "w")
\* and write.
save_project_analysis(files, project_name, analysis_response) ==
    [ p \in DOMAIN files \cup { AnalysisPath(project_name) } |->
        IF p = AnalysisPath(project_name) THEN str(analysis_response) ELSE files[p] ]

\* The content of a project's analysis file, NoFile when there is none.
ReadAnalysis(files, project_name) ==
    IF AnalysisPath(project_name) \in DOMAIN files
    THEN files[AnalysisPath(project_name)] ELSE NoFile

\* The latest command: the lines read, the branch taken, the prompts given to
\* the agent, what the agent did, the project the analysis was for, and what
\* that project's file held when the command started.
Command(lines, op, prompts, outcome, project_name, previous) ==
    [ lines |-> lines, op |-> op, prompts |-> prompts, outcome |-> outcome,
      project_name |-> project_name, previous |-> previous ]

NoCommand == Command(<< >>, "none", << >>, NoOutcome, "", NoFile)

\* The state of the process: the position in the `__main__` block, how the
\* loop was left, the files, the number of commands read, the latest command,
\* the clients on which stop() was called and what the latest stop() did.
Cli(pc, exit, files, commands, command, stopped, last_stop) ==
    [ pc |-> pc, exit |-> exit, files |-> files, commands |-> commands,
      command |-> command, stopped |-> stopped, last_stop |-> last_stop ]

\* The process before `agent, working_clients = main()` has returned.
NotStarted == Cli("main", "none", << >>, 0, NoCommand, << >>, "none")

\* The loop is left: by `break`, by KeyboardInterrupt, which the except clause
\* catches, or by any other exception, which no clause catches; each way
\* leads into the finally block.
Leave(c, working_clients, exit, command) ==
    Cli(IF Len(working_clients) = 0 THEN "ended" ELSE "finally", exit, c.files,
        c.commands + 1, command, c.stopped, c.last_stop)

\* The loop goes on to the next input().
Continue(c, files, command) ==
    Cli("loop", c.exit, files, c.commands + 1, command, c.stopped, c.last_stop)

\* analyze_project_requirements() followed by print and save_project_analysis().
Analyze(c, working_clients, lines, op, project_name, requirements, outcome) ==
    LET command == Command(lines, op, << requirements >>, outcome, project_name,
                           ReadAnalysis(c.files, project_name))
    IN  IF outcome.kind = "return"
        THEN Continue(c, save_project_analysis(c.files, project_name,
                                               Response(outcome.text)), command)
        ELSE IF outcome.kind = "interrupt"
        THEN Leave(c, working_clients, "KeyboardInterrupt", command)
        ELSE Leave(c, working_clients, "exception", command)

\* One iteration of `while True:`; first and second are what the first and
\* the second input() of the iteration do, outcome what the agent does.
command_loop(c, working_clients, first, second, outcome) ==
    IF first.kind # "line"
    THEN Leave(c, working_clients, first.kind,
               Command(<< >>, "input", << >>, NoOutcome, "", NoFile))
    ELSE LET user_input == first.text
         IN  IF lower(user_input) \in {"exit", "quit", "bye"}
             THEN Leave(c, working_clients, "break",
                        Command(<< user_input >>, "exit", << >>, NoOutcome, "", NoFile))
             ELSE IF startswith(user_input, "analyze:")
             THEN LET requirements == strip(SliceFrom(user_input, 8))
                  IN  IF requirements = ""
                      THEN Continue(c, c.files,
                               Command(<< user_input >>, "analyze", << >>, NoOutcome, "", NoFile))
                      ELSE IF second.kind # "line"
                      THEN Leave(c, working_clients, second.kind,
                               Command(<< user_input >>, "analyze", << >>, NoOutcome, "", NoFile))
                      ELSE Analyze(c, working_clients, << user_input, second.text >>,
                               "analyze",
                               IF strip(second.text) # "" THEN strip(second.text)
                               ELSE "new-project",
                               requirements, outcome)
             ELSE IF startswith(user_input, "project:")
             THEN LET project_name == strip(SliceFrom(user_input, 8))
                  IN  IF project_name = ""
                      THEN Continue(c, c.files,
                               Command(<< user_input >>, "project", << >>, NoOutcome, "", NoFile))
                      ELSE IF second.kind # "line"
                      THEN Leave(c, working_clients, second.kind,
                               Command(<< user_input >>, "project", << >>, NoOutcome, "", NoFile))
                      ELSE Analyze(c, working_clients, << user_input, second.text >>,
                               "project", project_name, second.text, outcome)
             ELSE LET command == Command(<< user_input >>, "question", << user_input >>,
                                         outcome, "", NoFile)
                  IN  IF outcome.kind = "return" THEN Continue(c, c.files, command)
                      ELSE IF outcome.kind = "interrupt"
                      THEN Leave(c, working_clients, "KeyboardInterrupt", command)
                      ELSE Leave(c, working_clients, "exception", command)

\* One iteration of `for client in working_clients:` in the finally block:
\* client.stop() inside try / except: pass.
StopNextClient(c, working_clients, outcome) ==
    LET client == working_clients[Len(c.stopped) + 1]
    IN  Cli(IF Len(c.stopped) + 1 = Len(working_clients) THEN "ended" ELSE "finally",
            c.exit, c.files, c.commands, c.command, Append(c.stopped, client), outcome)

\* `agent, working_clients = main()` outside the try: when main() returns the
\* loop starts, when it raises the process ends there.
AfterMain(c, con) ==
    IF con.pc = "returned"
    THEN Cli("loop", c.exit, c.files, c.commands, c.command, c.stopped, c.last_stop)
    ELSE Cli("ended", "main raised", c.files, c.commands, c.command, c.stopped,
             c.last_stop)

-----------------------------------------------------------------------------
(* main(): one execution of the script *)

\* The key= of each slot's trigger button.
ButtonKey(slot) ==
    CASE slot = "similar_projects_research" -> "similar_btn"
      [] slot = "requirements_analysis"     -> "req_btn"
      [] slot = "architecture_analysis"     -> "arch_btn"
      [] slot = "repository_structure"      -> "repo_structure_btn"
      [] slot = "typescript_cdk"            -> "ts_btn"
      [] slot = "python_cdk"                -> "py_btn"
      [] slot = "cost_analysis"             -> "cost_btn"
      [] slot = "documentation"             -> "doc_btn"

\* The widget event a run is started with: the button that returns True in this
\* run, and the values of the two text inputs.
Click(button, project_name, requirements_text) ==
    [ button |-> button, project_name |-> project_name,
      requirements_text |-> requirements_text ]

NoClick == Click("none", "", "")

\* The analysis function each slot's run block hands to background_analysis.
JobFunc(slot) ==
    CASE slot = "similar_projects_research" -> "run_similar_projects_research"
      [] slot = "requirements_analysis"     -> "run_requirements_analysis"
      [] slot = "architecture_analysis"     -> "run_architecture_analysis"
      [] slot = "repository_structure"      -> "run_repository_structure_analysis"
      [] slot = "typescript_cdk"            -> "run_typescript_cdk_generation"
      [] slot = "python_cdk"                -> "run_python_cdk_generation"
      [] slot = "cost_analysis"             -> "run_cost_analysis"
      [] slot = "documentation"             -> "run_documentation_generation"

\* The arguments after the agent that the run block passes.
JobArgs(st, a, slot) ==
    LET text == st["requirements_text"]
        name == st["project_name"]
        similar == Get(st, "similar_projects_research", Str(""))
        repo == Get(st, "repository_structure", Str(""))
    IN  IF a = "app.py"
        THEN CASE slot = "repository_structure" -> << name >>
               [] slot \in {"architecture_analysis", "documentation"} ->
                      << text, name, similar >>
               [] slot \in {"typescript_cdk", "python_cdk"} -> << text, name, similar, repo >>
               [] OTHER -> << text, name >>
        ELSE << text, name >>

\* An Initialize Project button that is content with either input.
InitializeAccepts_Either(project_name, requirements_text) ==
    requirements_text # "" \/ project_name # ""

\* `if requirements_text and project_name:` of the Initialize Project button
InitializeAccepts(project_name, requirements_text) ==
    requirements_text # "" /\ project_name # ""

\* An Initialize Project button that also discards the results of the slots.
InitializeProject_DiscardsResults(st, project_name, requirements_text) ==
    [ k \in Keys |->
        IF k = "project_name" THEN Str(project_name)
        ELSE IF k = "requirements_text" THEN Str(requirements_text)
        ELSE IF k = "project_initialized" THEN True
        ELSE IF k \in AllSlots /\ st[k] # Missing THEN None
        ELSE st[k] ]

\* An Initialize Project button that sets the flag and stores neither input.
InitializeProject_FlagOnly(st, project_name, requirements_text) ==
    [ st EXCEPT !["project_initialized"] = True ]

\* The three assignments of the Initialize Project button.
InitializeProject(st, project_name, requirements_text) ==
    [ st EXCEPT !["project_name"] = Str(project_name),
                !["requirements_text"] = Str(requirements_text),
                !["project_initialized"] = True ]

\* The loop of the Clear All Analysis button.
ClearAllAnalysis(st, a) ==
    [ k \in Keys |->
        IF k \in (analysis_types(a) \cup processing_types(a)) THEN DefaultOf(k) ELSE st[k] ]

\* A trigger button that sets the flag of the requirements tab, whichever tab it is in.
TriggerSlot_WrongKey(st, slot) == [ st EXCEPT !["processing_requirements"] = True ]

\* The assignment of a slot's trigger button.
TriggerSlot(st, slot) == [ st EXCEPT ![ProcessingKey(slot)] = True ]

\* The condition of a slot's run block.
Pending(st, slot) ==
    Truthy(Get(st, ProcessingKey(slot), None)) /\ ~Truthy(Get(st, slot, None))

\* A run block that resets the flag only when the job produced text.
StoreResult_KeepsFlagOnEmpty(st, slot, result) ==
    [ st EXCEPT ![slot] = result,
                ![ProcessingKey(slot)] = IF Truthy(result) THEN False ELSE @ ]

\* A run block whose job failed resets every processing flag that is set.
StoreResult_FailureResetsFlags(st, slot, result) ==
    [ k \in Keys |->
        IF k = slot THEN result
        ELSE IF k = ProcessingKey(slot) THEN False
        ELSE IF k # "project_initialized" /\ st[k] = True /\ result[2] \notin Responses
        THEN False
        ELSE st[k] ]

\* The two assignments that end a slot's run block.
StoreResult(st, slot, result) ==
    [ st EXCEPT ![slot] = result, ![ProcessingKey(slot)] = False ]

NoArgs == << >>
NoPrompts == << >>

\* What one execution of main() did: the session state it left, whether it ended
\* in st.rerun(), the handler or block that ended it, and the job it ran.
Run(st, rr, op, slot, func, args, prompts, outcome) ==
    [ st |-> st, rerun |-> rr, op |-> op, slot |-> slot, func |-> func, args |-> args,
      prompts |-> prompts, outcome |-> outcome ]

\* A run block that stores the result and does not call st.rerun().
RunPending_NoRerun(st, a, slot, outcome) ==
    LET func == JobFunc(slot)
        args == JobArgs(st, a, slot)
        job == background_analysis(a, func, args, outcome)
    IN  Run(StoreResult(st, slot, job.result), FALSE, "run_pending", slot, func, args,
            job.prompts, IF job.prompts = NoPrompts THEN NoOutcome ELSE outcome)

\* A slot's run block: the job, the store, st.rerun().
RunPending(st, a, slot, outcome) ==
    LET func == JobFunc(slot)
        args == JobArgs(st, a, slot)
        job == background_analysis(a, func, args, outcome)
    IN  Run(StoreResult(st, slot, job.result), TRUE, "run_pending", slot, func, args,
            job.prompts, IF job.prompts = NoPrompts THEN NoOutcome ELSE outcome)

\* Run blocks that do not end the run: one execution of main() runs the job of
\* every pending slot, one after the other.
RECURSIVE Tabs_RunsEveryPending(_, _, _, _, _)
Tabs_RunsEveryPending(st, a, click, outcome, i) ==
    IF i > Len(TabOrder(a))
    THEN Run(st, FALSE, "render", "", "", NoArgs, NoPrompts, NoOutcome)
    ELSE LET slot == TabOrder(a)[i]
         IN  IF click.button = ButtonKey(slot)
             THEN Run(TriggerSlot(st, slot), TRUE, "trigger", slot, "", NoArgs, NoPrompts,
                      NoOutcome)
             ELSE IF Pending(st, slot)
             THEN LET r == RunPending(st, a, slot, outcome)
                      rest == Tabs_RunsEveryPending(r.st, a, click, outcome, i + 1)
                  IN  IF rest.op = "run_pending"
                      THEN Run(rest.st, TRUE, "run_pending", slot, r.func, r.args,
                               r.prompts \o rest.prompts, r.outcome)
                      ELSE r
             ELSE Tabs_RunsEveryPending(st, a, click, outcome, i + 1)

\* The tabs from the i-th on, in the order main() executes them: in each, the
\* trigger button first, then the run block; either one ends the run.
RECURSIVE Tabs(_, _, _, _, _)
Tabs(st, a, click, outcome, i) ==
    IF i > Len(TabOrder(a))
    THEN Run(st, FALSE, "render", "", "", NoArgs, NoPrompts, NoOutcome)
    ELSE LET slot == TabOrder(a)[i]
         IN  IF click.button = ButtonKey(slot)
             THEN Run(TriggerSlot(st, slot), TRUE, "trigger", slot, "", NoArgs, NoPrompts,
                      NoOutcome)
             ELSE IF Pending(st, slot)
             THEN RunPending(st, a, slot, outcome)
             ELSE Tabs(st, a, click, outcome, i + 1)

\* main() with the tabs outside the `if st.session_state.get('project_initialized')`.
main_NoGate(st0, a, click, outcome) ==
    LET st == InitSessionState(st0, a)
    IN  IF click.button = "initialize"
           /\ InitializeAccepts(click.project_name, click.requirements_text)
        THEN Run(InitializeProject(st, click.project_name, click.requirements_text), TRUE,
                 "initialize", "", "", NoArgs, NoPrompts, NoOutcome)
        ELSE IF click.button = "clear"
        THEN Run(ClearAllAnalysis(st, a), TRUE, "clear_all", "", "", NoArgs, NoPrompts,
                 NoOutcome)
        ELSE Tabs(st, a, click, outcome, 1)

main(st0, a, click, outcome) ==
    LET st == InitSessionState(st0, a)
    IN  IF click.button = "initialize"
           /\ InitializeAccepts(click.project_name, click.requirements_text)
        THEN Run(InitializeProject(st, click.project_name, click.requirements_text), TRUE,
                 "initialize", "", "", NoArgs, NoPrompts, NoOutcome)
        ELSE IF click.button = "clear"
        THEN Run(ClearAllAnalysis(st, a), TRUE, "clear_all", "", "", NoArgs, NoPrompts,
                 NoOutcome)
        ELSE IF Truthy(Get(st, "project_initialized", None))
        THEN Tabs(st, a, click, outcome, 1)
        ELSE Run(st, FALSE, "render", "", "", NoArgs, NoPrompts, NoOutcome)

\* The slots render_sidebar() lists under Analysis Status.
SidebarSlots(a) == Slots(a) \ {"repository_structure"}

\* analysis_status of render_sidebar(): per listed slot, whether the sidebar
\* shows it as completed.
analysis_status(st, a) ==
    [ s \in SidebarSlots(a) |-> IsNotNone(Get(st, s, None)) ]

\* The view a slot's tab shows for a session state: the run block's processing
\* indicator, the result with its download, or the idle hint.
RenderView(st, slot) ==
    IF Pending(st, slot) THEN "InProgress"
    ELSE IF Truthy(Get(st, slot, None)) THEN "Completed"
    ELSE "Idle"

-----------------------------------------------------------------------------
(* What a run puts on the page *)

\* `sep in s`
Contains(s, sep) ==
    \E i \in 1..Len(s) : i + Len(sep) - 1 <= Len(s) /\ SubSeq(s, i, i + Len(sep) - 1) = sep

\* s.find(sep) + 1: the position of the first occurrence, 0 when there is none.
IndexOf(s, sep) ==
    LET occ == { i \in 1..Len(s) :
                   i + Len(sep) - 1 <= Len(s) /\ SubSeq(s, i, i + Len(sep) - 1) = sep }
    IN  IF occ = {} THEN 0 ELSE CHOOSE i \in occ : \A j \in occ : i <= j

\* s.split(sep)
RECURSIVE split(_, _)
split(s, sep) ==
    LET i == IndexOf(s, sep)
    IN  IF i = 0 THEN << s >>
        ELSE << SubSeq(s, 1, i - 1) >> \o split(SubSeq(s, i + Len(sep), Len(s)), sep)

Markdown(text) == [ element |-> "markdown", text |-> text ]
Code(text) == [ element |-> "code", text |-> text ]

\* The regions of the architecture tab: the text before the XML and the XML.
ArchitectureRegions(arch_response) ==
    IF Contains(arch_response, "<mxfile") \/ Contains(arch_response, "<?xml")
    THEN LET sep == IF Contains(arch_response, "<?xml") THEN "<?xml" ELSE "<mxfile"
             parts == split(arch_response, sep)
             text_part == parts[1]
             xml_part == IF Len(parts) > 1 THEN sep \o parts[2] ELSE ""
         IN  << Markdown(text_part) >>
                \o (IF xml_part # "" THEN << Code(xml_part) >> ELSE << >>)
    ELSE << Markdown(arch_response) >>

\* The elements that show a slot's result.
ResultRegions(a, slot, text) ==
    IF slot = "architecture_analysis" THEN ArchitectureRegions(text)
    ELSE IF a = "app1.py" /\ slot \in {"typescript_cdk", "python_cdk"} THEN << Code(text) >>
    ELSE << Markdown(text) >>

\* What follows the project name in file_name= of the slot's download button.
FileSuffix(a, slot) ==
    CASE slot = "similar_projects_research" -> "_similar_projects.md"
      [] slot = "requirements_analysis"     -> "_requirements.md"
      [] slot = "architecture_analysis"     -> "_architecture.md"
      [] slot = "typescript_cdk" ->
             IF a = "app.py" THEN "_typescript_cdk_complete.md" ELSE "_cdk.ts"
      [] slot = "python_cdk" ->
             IF a = "app.py" THEN "_python_cdk_complete.md" ELSE "_cdk.py"
      [] slot = "cost_analysis"             -> "_costs.md"
      [] slot = "documentation"             -> "_docs.md"

\* Download buttons that all carry the MIME type of the prose slots.
Mime_AlwaysMarkdown(a, slot) == "text/markdown"

\* mime= of the slot's download button.
Mime(a, slot) ==
    IF a = "app1.py" /\ slot \in {"typescript_cdk", "python_cdk"}
    THEN "text/plain" ELSE "text/markdown"

\* The repository structure is shown in an expander, without a download button.
HasDownload(a, slot) == slot # "repository_structure"

\* A download button that offers what the tab shows first.
download_button_Displayed(st, a, slot) ==
    [ data |-> Str(ResultRegions(a, slot, st[slot][2])[1].text),
      file_name |-> Format(st["project_name"]) \o FileSuffix(a, slot),
      mime |-> Mime(a, slot) ]

\* The arguments of the slot's st.download_button.
download_button(st, a, slot) ==
    [ data |-> st[slot],
      file_name |-> Format(st["project_name"]) \o FileSuffix(a, slot),
      mime |-> Mime(a, slot) ]

\* A tab, or the part of it, that the run did not reach.
NotRendered == [ view |-> "none", regions |-> << >>, downloads |-> << >> ]

\* The processing indicator a run block shows before it starts the job.
ProcessingIndicator == [ view |-> "InProgress", regions |-> << >>, downloads |-> << >> ]

\* The if / elif / else of a slot's tab below its trigger button.
RenderTab(st, a, slot) ==
    IF RenderView(st, slot) = "InProgress" THEN ProcessingIndicator
    ELSE IF RenderView(st, slot) = "Completed"
    THEN [ view |-> "Completed",
           regions |-> ResultRegions(a, slot, st[slot][2]),
           downloads |-> IF HasDownload(a, slot)
                         THEN << download_button(st, a, slot) >> ELSE << >> ]
    ELSE [ view |-> "Idle", regions |-> << >>, downloads |-> << >> ]

TabIndex(a, slot) == CHOOSE i \in 1..Len(TabOrder(a)) : TabOrder(a)[i] = slot

\* The tabs as the run left them: a run that ends in st.rerun() has rendered the
\* tabs before the one it ended in, and a run block its processing indicator.
PageOf(st, a, op, slot) ==
    [ s \in AllSlots |->
        IF s \notin Slots(a) \/ op \in {"initialize", "clear_all"}
           \/ ~Truthy(Get(st, "project_initialized", None))
        THEN NotRendered
        ELSE IF op = "render" THEN RenderTab(st, a, s)
        ELSE IF TabIndex(a, s) < TabIndex(a, slot) THEN RenderTab(st, a, s)
        ELSE IF s = slot /\ op = "run_pending" THEN ProcessingIndicator
        ELSE NotRendered ]

-----------------------------------------------------------------------------
(* The session as a state machine *)

ProjectNames == {"", "acme", "zeta"}
RequirementsTexts == {"", "Build a PDF uploader"}

Init ==
    /\ app \in Apps
    /\ session_state = [ k \in Keys |-> Missing ]
    /\ rerun = TRUE
    /\ last = [ button |-> "none", inputs |-> << "", "" >>, op |-> "start", slot |-> "",
                func |-> "", args |-> NoArgs, prompts |-> NoPrompts, outcome |-> NoOutcome ]
    /\ agent_calls = [ s \in AllSlots |-> 0 ]
    /\ triggered = [ s \in AllSlots |-> FALSE ]
    /\ clicks = 0
    /\ page = [ s \in AllSlots |-> NotRendered ]
    /\ construction = Constructed
    /\ cli = NotStarted

\* One execution of main() for a widget event, with the agent behaving as outcome.
ScriptRun(click, outcome) ==
    \E r \in { main(session_state, app, click, outcome) } :
        /\ session_state' = r.st
        /\ rerun' = r.rerun
        /\ last' = [ button |-> click.button,
                     inputs |-> << click.project_name, click.requirements_text >>,
                     op |-> r.op, slot |-> r.slot, func |-> r.func, args |-> r.args,
                     prompts |-> r.prompts, outcome |-> r.outcome ]
        /\ agent_calls' =
              IF r.op = "clear_all" THEN [ s \in AllSlots |-> 0 ]
              ELSE IF r.op = "run_pending"
              THEN [ agent_calls EXCEPT ![r.slot] = @ + Len(r.prompts) ]
              ELSE agent_calls
        /\ triggered' =
              IF r.op = "clear_all" THEN [ s \in AllSlots |-> FALSE ]
              ELSE IF r.op = "trigger" THEN [ triggered EXCEPT ![r.slot] = TRUE ]
              ELSE triggered
        /\ page' = PageOf(r.st, app, r.op, r.slot)
        /\ UNCHANGED <<app, construction, cli>>

\* The behaviours of the agent that a run started with click can meet: the agent
\* is called only by a run block.
OutcomesFor(click) ==
    IF main(session_state, app, click, NoOutcome).op = "run_pending"
    THEN AgentOutcomes ELSE { NoOutcome }

\* The page load, and every run that st.rerun() starts.
Rerun ==
    /\ rerun
    /\ \E outcome \in OutcomesFor(NoClick) : ScriptRun(NoClick, outcome)
    /\ UNCHANGED clicks

UserClick(click) ==
    /\ last.op # "start"
    /\ clicks < MaxClicks
    /\ clicks' = clicks + 1
    /\ \E outcome \in OutcomesFor(click) : ScriptRun(click, outcome)

ClickInitialize ==
    \E n \in ProjectNames, t \in RequirementsTexts : UserClick(Click("initialize", n, t))

ClickClearAll == UserClick(Click("clear", "", ""))

ClickTrigger == \E s \in Slots(app) : UserClick(Click(ButtonKey(s), "", ""))

Next == Rerun \/ ClickInitialize \/ ClickClearAll \/ ClickTrigger

Spec == Init /\ [][Next]_vars

\* st.rerun() always starts the next execution of main(): a scheduled run is
\* not postponed forever.
LiveSpec == Spec /\ WF_vars(Rerun)

-----------------------------------------------------------------------------
(* The session after one job, for responses of any shape *)

\* The pieces the responses are made of: prose and the two XML markers the
\* architecture tab looks for.
Tokens == {"a", "<?xml", "<mxfile"}

RECURSIVE TextsUpTo(_)
TextsUpTo(n) ==
    IF n = 0 THEN {""}
    ELSE TextsUpTo(n - 1) \cup { t \o k : t \in TextsUpTo(n - 1), k \in Tokens }

RenderTexts == TextsUpTo(MaxTokens)

RenderOutcomes ==
    { [kind |-> "return", text |-> t] : t \in RenderTexts } \cup
    { [kind |-> "raise", text |-> m] : m \in Messages }

\* The session right after the run block of one slot: the page was loaded, the
\* project initialized, the slot's button clicked, and the job has run.
RenderInit ==
    \E a \in Apps, n \in ProjectNames \ {""}, t \in RequirementsTexts \ {""} :
        \E slot \in Slots(a), outcome \in RenderOutcomes :
            \E r \in { RunPending(TriggerSlot(InitializeProject(
                           InitSessionState([ k \in Keys |-> Missing ], a), n, t), slot),
                           a, slot, outcome) } :
                /\ app = a
                /\ session_state = r.st
                /\ rerun = r.rerun
                /\ last = [ button |-> "none", inputs |-> << "", "" >>, op |-> r.op,
                            slot |-> r.slot, func |-> r.func, args |-> r.args,
                            prompts |-> r.prompts, outcome |-> r.outcome ]
                /\ agent_calls = [ s \in AllSlots |-> IF s = slot THEN Len(r.prompts) ELSE 0 ]
                /\ triggered = [ s \in AllSlots |-> s = slot ]
                /\ clicks = 2
                /\ page = PageOf(r.st, a, r.op, r.slot)
                /\ construction = Constructed
                /\ cli = NotStarted

\* The run that the run block's st.rerun() starts shows the result.
RenderSpec == RenderInit /\ [][Rerun]_vars

-----------------------------------------------------------------------------
(* The construction as a state machine *)

ConstructionInit ==
    /\ app \in EntryPoints
    /\ construction = ConstructionStart
    /\ session_state = [ k \in Keys |-> Missing ]
    /\ rerun = TRUE
    /\ last = [ button |-> "none", inputs |-> << "", "" >>, op |-> "start", slot |-> "",
                func |-> "", args |-> NoArgs, prompts |-> NoPrompts, outcome |-> NoOutcome ]
    /\ agent_calls = [ s \in AllSlots |-> 0 ]
    /\ triggered = [ s \in AllSlots |-> FALSE ]
    /\ clicks = 0
    /\ page = [ s \in AllSlots |-> NotRendered ]
    /\ cli = NotStarted

Connect ==
    /\ construction.pc = "connect"
    /\ \E outcome \in ConnectOutcomes :
          construction' = ConnectNextClient(construction, outcome)
    /\ UNCHANGED <<app, session_state, rerun, last, agent_calls, triggered, clicks, page, cli>>

Build ==
    /\ construction.pc = "build"
    /\ \E outcome \in AgentOutcomesWithTools :
          construction' = BuildAgent(construction, app, outcome)
    /\ UNCHANGED <<app, session_state, rerun, last, agent_calls, triggered, clicks, page, cli>>

ConstructionNext == Connect \/ Build

ConstructionSpec == ConstructionInit /\ [][ConstructionNext]_vars

-----------------------------------------------------------------------------
(* run.py as a state machine *)

\* Lines typed at the prompt `> `.
UserInputs ==
    { "EXIT", "Quit", "bye", "analyze:  ", "analyze: Build a PDF uploader",
      "project:acme", "project: ", "What is S3?" }

\* Lines typed at the second prompt: the project name of `analyze:`, the
\* requirements of `project:`.
SecondInputs == { "", " acme " }

InputOutcomes(texts) ==
    { Line(t) : t \in texts } \cup { InputRaises("KeyboardInterrupt"), InputRaises("EOFError") }

\* The agent returns a response, raises an exception, or is interrupted by Ctrl-C.
CliAgentOutcomes == AgentOutcomes \cup { [kind |-> "interrupt", text |-> ""] }

\* What the second input() of an iteration can do: it is called only on the
\* `analyze:` and `project:` branches with a non-empty remainder.
SecondFor(first) ==
    LET probe == command_loop(cli, construction.returned_clients, first, NoLine, NoOutcome)
    IN  IF probe.pc # "loop" /\ probe.exit = "none"
        THEN InputOutcomes(SecondInputs) ELSE { NoLine }

\* What the agent can do in an iteration: it is called only on the branches that
\* reach analyze_project_requirements() or agent(user_input).
CliOutcomesFor(first, second) ==
    IF command_loop(cli, construction.returned_clients, first, second,
                    NoOutcome).command.prompts # << >>
    THEN CliAgentOutcomes ELSE { NoOutcome }

\* The directory projects/ holds no analysis when the process starts.
CliInit ==
    /\ app = "run.py"
    /\ construction = ConstructionStart
    /\ cli = NotStarted
    /\ session_state = [ k \in Keys |-> Missing ]
    /\ rerun = TRUE
    /\ last = [ button |-> "none", inputs |-> << "", "" >>, op |-> "start", slot |-> "",
                func |-> "", args |-> NoArgs, prompts |-> NoPrompts, outcome |-> NoOutcome ]
    /\ agent_calls = [ s \in AllSlots |-> 0 ]
    /\ triggered = [ s \in AllSlots |-> FALSE ]
    /\ clicks = 0
    /\ page = [ s \in AllSlots |-> NotRendered ]

CliFrame == UNCHANGED <<app, session_state, rerun, last, agent_calls, triggered, clicks, page>>

\* The last step of main() and the return into the `__main__` block.
CliBuild ==
    /\ construction.pc = "build"
    /\ \E outcome \in AgentOutcomesWithTools :
          /\ construction' = BuildAgent(construction, app, outcome)
          /\ cli' = AfterMain(cli, construction')
    /\ CliFrame

\* One command at the prompt.
CliCommand ==
    /\ cli.pc = "loop"
    /\ cli.commands < MaxCommands
    /\ \E first \in InputOutcomes(UserInputs) :
          \E second \in SecondFor(first) :
              \E outcome \in CliOutcomesFor(first, second) :
                  cli' = command_loop(cli, construction.returned_clients, first, second, outcome)
    /\ UNCHANGED construction
    /\ CliFrame

\* One client stopped in the finally block.
CliStop ==
    /\ cli.pc = "finally"
    /\ \E outcome \in {"ok", "raises"} :
          cli' = StopNextClient(cli, construction.returned_clients, outcome)
    /\ UNCHANGED construction
    /\ CliFrame

CliNext == Connect \/ CliBuild \/ CliCommand \/ CliStop

CliSpec == CliInit /\ [][CliNext]_vars

-----------------------------------------------------------------------------
(* Properties of the coordinator *)

Initialized(st) == Truthy(Get(st, "project_initialized", None))

\* A slot's result is absent: None, or no such key in the session.
Absent(st, slot) == Get(st, slot, None) = None

InProgress(st, slot) == Truthy(Get(st, ProcessingKey(slot), None))

SlotButtons == { ButtonKey(s) : s \in AllSlots }

\* The capability named in each slot's failure message.
CapabilityLabel(slot) ==
    CASE slot = "similar_projects_research" -> "Similar projects research"
      [] slot = "requirements_analysis"     -> "Requirements analysis"
      [] slot = "architecture_analysis"     -> "Architecture analysis"
      [] slot = "repository_structure"      -> "Repository structure analysis"
      [] slot = "typescript_cdk"            -> "TypeScript CDK generation"
      [] slot = "python_cdk"                -> "Python CDK generation"
      [] slot = "cost_analysis"             -> "Cost analysis"
      [] slot = "documentation"             -> "Documentation generation"

\* C1: the Clear All Analysis step leaves every slot of the entry point with no
\* result and in_progress false, and leaves the project uninitialized.
C1_ClearAllResetsEverySlot ==
    last.op = "clear_all" =>
        /\ \A s \in Slots(app) : Absent(session_state, s) /\ ~InProgress(session_state, s)
        /\ ~Initialized(session_state)

\* C2: every execution of a slot's run block ends with the slot's result stored
\* and its in_progress flag false, whatever the job produced.
C2_RunPendingClearsInProgress ==
    last.op = "run_pending" =>
        /\ IsStr(session_state[last.slot])
        /\ session_state[ProcessingKey(last.slot)] = False

\* C2 witness: a job whose agent call returned the empty string has completed.
C2_Witness ==
    /\ last.op = "run_pending"
    /\ last.outcome = [kind |-> "return", text |-> ""]
    /\ session_state[last.slot] = Str("")
    /\ session_state[ProcessingKey(last.slot)] = False

\* C3: when no run is scheduled, no slot has both a stored result (a text that
\* the sidebar lists as completed and the tab shows) and in_progress true.
C3_NoResultWithInProgressAtQuiescence ==
    ~rerun => \A s \in Slots(app) :
                  ~(InProgress(session_state, s) /\ Truthy(Get(session_state, s, None)))

\* C4: a trigger on a slot whose result is set (a text the tab shows as
\* Completed) changes no slot's result and no slot's in_progress flag.
C4_RetriggerIsNoOp ==
    [][ (last'.op = "trigger" /\ Truthy(Get(session_state, last'.slot, None))) =>
            \A s \in Slots(app) :
                /\ session_state'[s] = session_state[s]
                /\ session_state'[ProcessingKey(s)] = session_state[ProcessingKey(s)] ]_vars

\* C5: within one clear cycle the agent is invoked at most once for a slot, and
\* exactly once for a triggered slot once the reruns have ended.
C5_ExactlyOneCallPerCycle ==
    \A s \in Slots(app) :
        /\ agent_calls[s] <= 1
        /\ (triggered[s] /\ ~rerun /\ Initialized(session_state)) => agent_calls[s] = 1

\* C6: a run that starts with the project uninitialized executes no trigger
\* handler and no run block and calls no agent, and a click on a slot's button
\* in such a run changes no slot's result and no slot's in_progress.
C6_NoSlotActionWhileUninitialized ==
    [][ ~Initialized(session_state) =>
            /\ last'.op \notin {"trigger", "run_pending"}
            /\ last'.prompts = NoPrompts
            /\ last'.button \in SlotButtons =>
                  \A s \in AllSlots :
                      /\ Get(session_state', s, None) = Get(session_state, s, None)
                      /\ InProgress(session_state', s) = InProgress(session_state, s) ]_vars

\* C6 witness: a slot's button was clicked after a clear and the run did nothing.
C6_Witness ==
    /\ last.button = "cost_btn"
    /\ last.op = "render"
    /\ session_state["project_initialized"] = None
    /\ session_state["project_name"] # Missing

\* C7: in app.py a run of the typescript_cdk or python_cdk slot invokes the agent
\* exactly once, with a prompt holding the project context, the similar_projects
\* result and the repository_structure result, and stores the response or the
\* slot's own failure message.
C7_CdkJobCallsAgentOnceWithBothContexts ==
    (app = "app.py" /\ last.op = "run_pending"
        /\ last.slot \in {"typescript_cdk", "python_cdk"}) =>
        /\ Len(last.prompts) = 1
        /\ last.prompts[1].project_name = Format(session_state["project_name"])
        /\ last.prompts[1].requirements_text = Format(session_state["requirements_text"])
        /\ last.prompts[1].similar_projects_context =
              Format(Get(session_state, "similar_projects_research", Str("")))
        /\ last.prompts[1].repo_structure_context =
              Format(Get(session_state, "repository_structure", Str("")))
        /\ session_state[last.slot] =
              IF last.outcome.kind = "return"
              THEN Str(last.outcome.text)
              ELSE Str(CapabilityLabel(last.slot) \o " failed: " \o last.outcome.text)

\* C8: a downstream job runs whether or not its upstream results exist, and an
\* upstream result that is absent when the job runs is passed as the empty string.
C8_AbsentUpstreamPassedAsEmptyString ==
    (app = "app.py" /\ last.op = "run_pending"
        /\ last.slot \in {"architecture_analysis", "typescript_cdk", "python_cdk",
                          "documentation"}) =>
        /\ Absent(session_state, "similar_projects_research") => last.args[3] = Str("")
        /\ (last.slot \in {"typescript_cdk", "python_cdk"}
              /\ Absent(session_state, "repository_structure")) => last.args[4] = Str("")

\* C9: when the agent call of a slot's job raises with message m, the run block
\* still completes: the slot's result is its capability label, " failed: " and m,
\* in_progress is false and the slot shows its Completed view.
C9_AgentFailureBecomesResult ==
    (last.op = "run_pending" /\ last.outcome.kind = "raise") =>
        /\ session_state[last.slot] =
              Str(CapabilityLabel(last.slot) \o " failed: " \o last.outcome.text)
        /\ ~InProgress(session_state, last.slot)
        /\ RenderView(session_state, last.slot) = "Completed"

\* C9 witness: the agent raised "boom" in the cost job.
C9_Witness ==
    /\ last.op = "run_pending"
    /\ last.slot = "cost_analysis"
    /\ last.outcome = [kind |-> "raise", text |-> "boom"]
    /\ session_state["cost_analysis"] = Str("Cost analysis failed: boom")

\* C10: the trigger of a slot with no result leaves that slot showing InProgress
\* and every other slot's result, in_progress and view as they were; and a slot
\* that shows InProgress keeps showing it over every step that is neither the
\* completion of its own job nor a clear.
C10_TriggerShowsInProgress ==
    [][ /\ (last'.op = "trigger" /\ ~Truthy(Get(session_state, last'.slot, None))) =>
              /\ RenderView(session_state', last'.slot) = "InProgress"
              /\ \A t \in Slots(app) \ {last'.slot} :
                    /\ session_state'[t] = session_state[t]
                    /\ session_state'[ProcessingKey(t)] = session_state[ProcessingKey(t)]
                    /\ RenderView(session_state', t) = RenderView(session_state, t)
        /\ \A s \in Slots(app) :
              (/\ RenderView(session_state, s) = "InProgress"
               /\ last'.op # "clear_all"
               /\ ~(last'.op = "run_pending" /\ last'.slot = s)) =>
                  RenderView(session_state', s) = "InProgress" ]_vars

\* C10 witness: a slot has just been triggered while another slot shows a result.
C10_Witness ==
    /\ last.op = "trigger"
    /\ RenderView(session_state, last.slot) = "InProgress"
    /\ \E t \in Slots(app) \ {last.slot} : RenderView(session_state, t) = "Completed"

\* C11: a click on slot B's button in a run that starts with a different slot A
\* in progress (A's run block is due) and B not yet triggered records B's
\* trigger: B's in_progress flag is true after the run, whichever of the two
\* tabs main() reaches first.
C11_TriggerWhileOtherInProgress ==
    [][ \A b \in Slots(app) :
            (/\ Initialized(session_state)
             /\ last'.button = ButtonKey(b)
             /\ \E a \in Slots(app) \ {b} : Pending(session_state, a)) =>
                InProgress(session_state', b) ]_vars

\* The failure messages a slot's job can store: the analysis function's own
\* message for an exception of the agent, and background_analysis's message
\* for an exception of the call itself.
FailureMessages(a, slot) ==
    { CapabilityLabel(slot) \o " failed: " \o m : m \in Messages } \cup
    { "Background analysis failed: "
        \o TypeErrorText(JobFunc(slot), Positional(a, JobFunc(slot))[1],
                         Positional(a, JobFunc(slot))[2], n) : n \in 4..5 }

\* The slot's job has ended in a failure.
Failed(st, a, slot) == IsStr(st[slot]) /\ st[slot][2] \in FailureMessages(a, slot)

SlotStateUnchanged(s) ==
    /\ session_state'[s] = session_state[s]
    /\ session_state'[ProcessingKey(s)] = session_state[ProcessingKey(s)]

\* C12: a job that ends in a failure changes no other slot's result or flag;
\* and while a slot holds a failure message, a click on any other slot's button
\* (no job being due) runs that slot's trigger handler, a due job of another
\* slot runs to completion (result stored, flag false), and no other slot's
\* trigger or job changes the failed slot's result or flag.
C12_FailureIsolation ==
    [][ /\ (last'.op = "run_pending" /\ Failed(session_state', app, last'.slot)) =>
               \A t \in Slots(app) \ {last'.slot} : SlotStateUnchanged(t)
        /\ \A s \in Slots(app) :
              (Failed(session_state, app, s) /\ Initialized(session_state)) =>
                  /\ (last'.op \in {"trigger", "run_pending"} /\ last'.slot # s) =>
                         SlotStateUnchanged(s)
                  /\ \A t \in Slots(app) \ {s} :
                         (/\ last'.button = ButtonKey(t)
                          /\ \A u \in Slots(app) : ~Pending(session_state, u)) =>
                             /\ last'.op = "trigger" /\ last'.slot = t
                             /\ InProgress(session_state', t)
                  /\ (/\ last'.button = "none"
                      /\ \E u \in Slots(app) : Pending(session_state, u)) =>
                         /\ last'.op = "run_pending"
                         /\ last'.slot # s
                         /\ Pending(session_state, last'.slot)
                         /\ IsStr(session_state'[last'.slot])
                         /\ ~InProgress(session_state', last'.slot) ]_vars

\* C12 witness: after one slot's job failed, another slot was triggered and its
\* job has completed, the failed slot still holding its failure message.
C12_Witness ==
    /\ last.op = "run_pending"
    /\ last.outcome.kind = "return"
    /\ \E s \in Slots(app) \ {last.slot} :
          /\ Failed(session_state, app, s)
          /\ ~InProgress(session_state, s)
    /\ session_state[last.slot] = Str(last.outcome.text)

\* C13: whenever a slot's tab offers a download, the data it offers is the
\* slot's stored result, whole and unmodified; so also in the architecture tab,
\* which shows the result split in two regions.
C13_ExportIsStoredResult ==
    \A s \in Slots(app) :
        \A k \in 1..Len(page[s].downloads) : page[s].downloads[k].data = session_state[s]

\* C13 witness: the architecture tab shows a prose region and an XML region and
\* offers the stored text, which holds both, for download.
C13_Witness ==
    /\ Len(page["architecture_analysis"].regions) = 2
    /\ page["architecture_analysis"].regions[1].text # ""
    /\ Len(page["architecture_analysis"].downloads) = 1
    /\ page["architecture_analysis"].downloads[1].data =
          session_state["architecture_analysis"]
    /\ Contains(session_state["architecture_analysis"][2], "<?xml")

StartsWith(s, prefix) == Len(s) >= Len(prefix) /\ SubSeq(s, 1, Len(prefix)) = prefix

EndsWith(s, suffix) ==
    Len(s) >= Len(suffix) /\ SubSeq(s, Len(s) - Len(suffix) + 1, Len(s)) = suffix

CodeSlots == {"typescript_cdk", "python_cdk"}

\* C14 as stated: every download offered is named with the stored project name
\* and "_" in front; for a prose slot it is a .md file of type text/markdown, for
\* the code slots typescript_cdk and python_cdk a file of type text/plain that is
\* not a .md file, in either entry point.
C14_CodeSlotsPlainTextEverywhere ==
    \A s \in Slots(app) :
        \A k \in 1..Len(page[s].downloads) :
            LET d == page[s].downloads[k]
            IN  /\ StartsWith(d.file_name, Format(session_state["project_name"]) \o "_")
                /\ IF s \in CodeSlots
                   THEN d.mime = "text/plain" /\ ~EndsWith(d.file_name, ".md")
                   ELSE d.mime = "text/markdown" /\ EndsWith(d.file_name, ".md")

\* The file name and type of each slot's export, per entry point.
C14_ExportName(a, s) ==
    CASE s = "similar_projects_research" -> <<"_similar_projects.md", "text/markdown">>
      [] s = "requirements_analysis"     -> <<"_requirements.md", "text/markdown">>
      [] s = "architecture_analysis"     -> <<"_architecture.md", "text/markdown">>
      [] s = "cost_analysis"             -> <<"_costs.md", "text/markdown">>
      [] s = "documentation"             -> <<"_docs.md", "text/markdown">>
      [] s = "typescript_cdk" /\ a = "app1.py" -> <<"_cdk.ts", "text/plain">>
      [] s = "python_cdk" /\ a = "app1.py"     -> <<"_cdk.py", "text/plain">>
      [] s = "typescript_cdk" /\ a = "app.py"  ->
             <<"_typescript_cdk_complete.md", "text/markdown">>
      [] s = "python_cdk" /\ a = "app.py"      ->
             <<"_python_cdk_complete.md", "text/markdown">>
      [] OTHER -> <<"", "">>

\* C14 amended: every download offered is named by the stored project name
\* followed by the slot's fixed suffix and has the slot's fixed type: markdown
\* for the prose slots; for the code slots plain text (_cdk.ts, _cdk.py) in
\* app1.py and markdown (_typescript_cdk_complete.md, _python_cdk_complete.md)
\* in app.py.
C14_ExportNamePerEntryPoint ==
    \A s \in Slots(app) :
        \A k \in 1..Len(page[s].downloads) :
            /\ page[s].downloads[k].file_name =
                  Format(session_state["project_name"]) \o C14_ExportName(app, s)[1]
            /\ page[s].downloads[k].mime = C14_ExportName(app, s)[2]

\* C14 witness: app1.py offers the TypeScript code of project acme as a plain
\* text file.
C14_Witness ==
    /\ app = "app1.py"
    /\ Len(page["typescript_cdk"].downloads) = 1
    /\ page["typescript_cdk"].downloads[1].file_name = "acme_cdk.ts"
    /\ page["typescript_cdk"].downloads[1].mime = "text/plain"

\* C15: on every page a completed run shows for an initialized project, a slot
\* that has an export offers it exactly when the slot's result is present (not
\* None), and only in its Completed view.
C15_ExportOfferedIffResultPresent ==
    (last.op = "render" /\ Initialized(session_state)) =>
        \A s \in Slots(app) :
            HasDownload(app, s) =>
                /\ (Len(page[s].downloads) = 1) <=> ~Absent(session_state, s)
                /\ page[s].downloads # << >> => page[s].view = "Completed"

\* The marker the architecture tab splits at.
C16_Marker(text) == IF Contains(text, "<?xml") THEN "<?xml" ELSE "<mxfile"

\* C16: when the stored architecture result holds an XML marker, the tab shows
\* two regions, the text before the first occurrence of the marker and the text
\* from that occurrence on: the second region starts with the marker, the first
\* does not hold it, and the two together are the whole stored result.
C16_ArchitectureSplitKeepsEverything ==
    LET text == session_state["architecture_analysis"][2]
        regions == page["architecture_analysis"].regions
    IN  (/\ page["architecture_analysis"].view = "Completed"
         /\ (Contains(text, "<?xml") \/ Contains(text, "<mxfile"))) =>
            /\ Len(regions) = 2
            /\ StartsWith(regions[2].text, C16_Marker(text))
            /\ ~Contains(regions[1].text, C16_Marker(text))
            /\ regions[1].text \o regions[2].text = text

\* C17: while the project is initialized, no step other than Clear All changes
\* the stored project_name or requirements_text, so the context that the stored
\* results were computed from is the one they are shown and exported with.
C17_ContextFixedUntilClear ==
    [][ (Initialized(session_state) /\ last'.op # "clear_all") =>
            /\ session_state'["project_name"] = session_state["project_name"]
            /\ session_state'["requirements_text"] = session_state["requirements_text"]
      ]_vars

\* C18: a click on Initialize Project initializes the project exactly when the
\* name and the text are both non-empty, storing the two and setting
\* initialized; with an empty name or an empty text the handler assigns
\* nothing: initialized and the stored context are unchanged, and so is every
\* slot that has no job due in that run.
C18_InitializeValidatesInputs ==
    [][ last'.button = "initialize" =>
            IF last'.inputs[1] # "" /\ last'.inputs[2] # ""
            THEN /\ last'.op = "initialize"
                 /\ session_state'["project_name"] = Str(last'.inputs[1])
                 /\ session_state'["requirements_text"] = Str(last'.inputs[2])
                 /\ session_state'["project_initialized"] = True
            ELSE /\ last'.op # "initialize"
                 /\ session_state'["project_initialized"] = session_state["project_initialized"]
                 /\ session_state'["project_name"] = session_state["project_name"]
                 /\ session_state'["requirements_text"] = session_state["requirements_text"]
                 /\ \A s \in Slots(app) : ~Pending(session_state, s) => SlotStateUnchanged(s)
      ]_vars

\* C18 witness: Initialize Project was clicked with an empty name or text in an
\* initialized session that holds a result, and the run only rendered the page.
C18_Witness ==
    /\ last.button = "initialize"
    /\ last.inputs[1] = "" \/ last.inputs[2] = ""
    /\ last.op = "render"
    /\ Initialized(session_state)
    /\ \E s \in Slots(app) : page[s].view = "Completed"

\* The view the claim assigns to a (result, in_progress) pair.
C19_ViewOf(st, s) ==
    IF ~Absent(st, s) THEN "Completed"
    ELSE IF InProgress(st, s) THEN "InProgress"
    ELSE "Idle"

\* C19: on every page a completed run shows for an initialized project, each
\* slot's tab shows exactly the view of its (result, in_progress) pair:
\* Completed with the stored text when a result is stored, so for every slot
\* whose job has completed; InProgress when there is no result and in_progress
\* is true; Idle otherwise.
C19_RenderViewOfResultAndFlag ==
    (last.op = "render" /\ Initialized(session_state)) =>
        \A s \in Slots(app) :
            /\ page[s].view \in {"Idle", "InProgress", "Completed"}
            /\ page[s].view = C19_ViewOf(session_state, s)
            /\ page[s].view = "Completed" =>
                  /\ page[s].regions # << >>
                  /\ (s # "architecture_analysis" =>
                         page[s].regions[1].text = session_state[s][2])

\* The clients whose start() and list_tools_sync() both returned, in the order
\* of mcp_clients.
RECURSIVE Succeeded(_, _)
Succeeded(outcomes, i) ==
    IF i > Len(outcomes) THEN << >>
    ELSE (IF outcomes[i] = "ok" THEN << mcp_clients[i] >> ELSE << >>)
             \o Succeeded(outcomes, i + 1)

\* C20: the construction never aborts: it tries every client of mcp_clients,
\* a failing client being left out, and returns an agent.  The agent's tools
\* and the returned working_clients are exactly the clients that both started
\* and listed their tools, in the order of mcp_clients, and none when no
\* client did; when building the agent itself fails, the agent returned is the
\* degraded one with no tools.
C20_ConstructionDegrades ==
    /\ construction.pc # "raised"
    /\ construction.pc \in {"build", "returned"} =>
          /\ Len(construction.outcomes) = Len(mcp_clients)
          /\ construction.working_clients = Succeeded(construction.outcomes, 1)
    /\ construction.pc = "returned" =>
          /\ construction.agent.built
          /\ construction.returned_clients = construction.agent.tools
          /\ construction.agent.tools =
                IF construction.agent_outcome = "raises" THEN << >>
                ELSE Succeeded(construction.outcomes, 1)

\* Number of agent invocations recorded over the slots in ss.
RECURSIVE TotalCalls(_, _)
TotalCalls(calls, ss) ==
    IF ss = {} THEN 0
    ELSE LET s == CHOOSE x \in ss : TRUE
         IN  calls[s] + TotalCalls(calls, ss \ {s})

\* The slots whose session keys a step changed.
SlotsChanged(st, st2) ==
    { s \in AllSlots : st2[s] # st[s] \/ st2[ProcessingKey(s)] # st[ProcessingKey(s)] }

C24_InitializedHasContext ==
    /\ Initialized(session_state) =>
          /\ IsStr(session_state["project_name"])
          /\ session_state["project_name"][2] # ""
          /\ IsStr(session_state["requirements_text"])
          /\ session_state["requirements_text"][2] # ""
    /\ last.op = "run_pending" =>
          /\ \E i \in 1..Len(last.args) : last.args[i] = session_state["project_name"]
          /\ Len(last.args) >= 2 => last.args[1] = session_state["requirements_text"]

\* C24 witness: Initialize was clicked with an empty text while a job was
\* pending; the click was refused and the run went on to the job, which read
\* the context stored by the earlier, valid Initialize.
C24_Witness ==
    /\ Initialized(session_state)
    /\ last.button = "initialize"
    /\ last.inputs = << "zeta", "" >>
    /\ last.op = "run_pending"
    /\ \E i \in 1..Len(last.args) : last.args[i] = Str("acme")

\* C25: on every page a completed run shows, the sidebar, which main() renders
\* from the session state the run starts with, marks a listed slot as completed
\* exactly when the slot's tab shows its Completed view with the export.
C25_SidebarAgreesWithTab ==
    [][ last'.op = "render" =>
          \A s \in SidebarSlots(app) :
              analysis_status(InitSessionState(session_state, app), app)[s]
                  <=> (page'[s].view = "Completed" /\ page'[s].downloads # << >>) ]_vars

\* The order of the slots in the claim.
C26_Order ==
    << "similar_projects_research", "requirements_analysis", "architecture_analysis",
       "repository_structure", "typescript_cdk", "python_cdk", "cost_analysis",
       "documentation" >>

\* The first slot of C26_Order that is pending in st.
C26_FirstPending(st) ==
    C26_Order[CHOOSE i \in 1..Len(C26_Order) :
                 /\ Pending(st, C26_Order[i])
                 /\ \A j \in 1..(i - 1) : ~Pending(st, C26_Order[j])]

\* C26: in a run of an initialized session that starts with one or more slots
\* pending and is not a clear, a run block is executed for the first pending
\* slot of the fixed order only, the run then requests a rerun, and every
\* other pending slot stays pending; a rerun (a run without a click) always
\* executes that run block; so every pending slot has its job executed by a
\* later rerun unless the session is cleared first.
C26_FirstPendingRunsFirst ==
    /\ [][ (/\ Initialized(session_state)
            /\ \E s \in AllSlots : Pending(session_state, s)
            /\ last'.op # "clear_all") =>
              /\ last'.button = "none" => last'.op = "run_pending"
              /\ last'.op = "run_pending" =>
                    /\ last'.slot = C26_FirstPending(session_state)
                    /\ rerun'
              /\ \A t \in AllSlots :
                    (Pending(session_state, t)
                       /\ ~(last'.op = "run_pending" /\ last'.slot = t)) =>
                        Pending(session_state', t) ]_vars
    /\ \A s \in AllSlots :
          (/\ Initialized(session_state)
           /\ Pending(session_state, s)
           /\ \E t \in AllSlots \ {s} : Pending(session_state, t)) ~>
              \/ last.op = "run_pending" /\ last.slot = s /\ ~InProgress(session_state, s)
              \/ ~Initialized(session_state)

\* C26 witness: cost and then requirements were triggered before any rerun;
\* the rerun ran the requirements job, the earlier tab, and cost is still
\* pending.
C26_Witness ==
    /\ last.button = "none"
    /\ last.op = "run_pending"
    /\ last.slot = "requirements_analysis"
    /\ Pending(session_state, "cost_analysis")
    /\ rerun

\* The session keys of the project context.
C27_ContextKeys == {"project_name", "requirements_text", "project_initialized"}

\* C27: a run in which the Initialize Project handler executes changes no
\* session key other than project_name, requirements_text and
\* project_initialized: every slot's result and in_progress flag are what
\* they were, also when the project was initialized before and results exist.
C27_InitializeFrame ==
    [][ last'.op = "initialize" =>
          /\ \A k \in Keys \ C27_ContextKeys : session_state'[k] = session_state[k]
          /\ \A s \in Slots(app) :
                /\ Get(session_state', s, None) = Get(session_state, s, None)
                /\ InProgress(session_state', s) = InProgress(session_state, s) ]_vars

\* C27 witness: Initialize Project ran again, with the name zeta, in a session
\* that holds the result of a job.
C27_Witness ==
    /\ last.op = "initialize"
    /\ last.inputs[1] = "zeta"
    /\ session_state["project_name"] = Str("zeta")
    /\ \E s \in Slots(app) : session_state[s] = Str("ok") /\ agent_calls[s] = 1

\* No run is scheduled and no slot's run block is due.
Quiescent ==
    ~rerun /\ \A s \in AllSlots : ~Pending(session_state, s)

\* C23: in an initialized session whose external calls all return or raise,
\* the reruns end in a state with no run scheduled and no slot pending, and
\* every pending slot has its run block executed, unless the session is
\* cleared first; a run block is executed only for a slot whose in_progress
\* flag is set, and only a slot's trigger sets its flag.
C23_RerunLoopProgress ==
    /\ []((~rerun /\ Initialized(session_state)) =>
              \A s \in AllSlots : ~Pending(session_state, s))
    /\ [][ /\ last'.op = "run_pending" => InProgress(session_state, last'.slot)
           /\ \A s \in AllSlots :
                 (~InProgress(session_state, s) /\ InProgress(session_state', s)) =>
                     (last'.op = "trigger" /\ last'.slot = s) ]_vars
    /\ (rerun /\ Initialized(session_state)) ~>
           (Quiescent \/ ~Initialized(session_state))
    /\ \A s \in AllSlots :
          (Initialized(session_state) /\ Pending(session_state, s)) ~>
              \/ last.op = "run_pending" /\ last.slot = s
              \/ ~Initialized(session_state)

\* C23 witness: two slots were triggered, both jobs have run, and the reruns
\* have ended with nothing pending.
C23_Witness ==
    /\ Quiescent
    /\ Initialized(session_state)
    /\ last.op = "render"
    /\ \E s, t \in Slots(app) :
          /\ s # t
          /\ triggered[s] /\ triggered[t]
          /\ IsStr(session_state[s]) /\ IsStr(session_state[t])

-----------------------------------------------------------------------------
(* Properties of the command loop of run.py *)

\* The text after the eight characters of a command's prefix, stripped.
C22_Remainder(line) == strip(SliceFrom(line, 8))

\* The project a completed command is about: the name after `project:`, or the
\* name typed at the second prompt of `analyze:`, "new-project" when none is typed.
C22_ProjectName(lines) ==
    IF startswith(lines[1], "project:") THEN C22_Remainder(lines[1])
    ELSE IF strip(lines[2]) = "" THEN "new-project"
    ELSE strip(lines[2])

\* C22: a command `analyze: <text>` with non-empty text or `project: <name>`
\* with non-empty name, whose second line was entered, calls the agent exactly
\* once, and when the call returns, projects/<project_name>/complete_analysis.md
\* holds exactly the string form of the response, replacing what the file held,
\* and no other file changes; `analyze:` with empty text calls no agent,
\* writes no file and returns to the prompt.
C22_CliPersistence ==
    [][ (cli'.commands = cli.commands + 1 /\ Len(cli'.command.lines) >= 1) =>
          LET cmd == cli'.command
              line == cmd.lines[1]
              named == startswith(line, "analyze:") \/ startswith(line, "project:")
          IN  /\ (startswith(line, "analyze:") /\ C22_Remainder(line) = "") =>
                    /\ cmd.prompts = << >>
                    /\ cli'.files = cli.files
                    /\ cli'.pc = "loop"
              /\ (named /\ C22_Remainder(line) # "") =>
                    \/ Len(cmd.lines) = 2
                    \/ cli'.exit \in {"KeyboardInterrupt", "EOFError"} /\ cmd.prompts = << >>
              /\ (named /\ C22_Remainder(line) # "" /\ Len(cmd.lines) = 2) =>
                    /\ Len(cmd.prompts) = 1
                    /\ cmd.outcome.kind = "return" =>
                          LET path == "projects/" \o C22_ProjectName(cmd.lines)
                                          \o "/complete_analysis.md"
                          IN  /\ DOMAIN cli'.files = DOMAIN cli.files \cup {path}
                              /\ cli'.files[path] = cmd.outcome.text
                              /\ \A p \in DOMAIN cli.files \ {path} :
                                    cli'.files[p] = cli.files[p] ]_vars

\* C22 witness: the second command analysed project acme again and the file,
\* which held "ok", now holds the empty response of the second call.
C22_Witness ==
    /\ cli.commands = 2
    /\ cli.command.lines = << "project:acme", "" >>
    /\ cli.command.outcome = [kind |-> "return", text |-> ""]
    /\ cli.command.previous = "ok"
    /\ cli.files["projects/acme/complete_analysis.md"] = ""

\* The ways of leaving the command loop that the claims name: `break` on
\* exit, quit or bye, Ctrl-C, and an exception of the agent call.
C28_Exits == {"break", "KeyboardInterrupt", "exception"}

\* The elements of a sequence.
C28_Range(seq) == { seq[i] : i \in 1..Len(seq) }

\* C28: when the process has ended after the command loop was left by exit,
\* quit or bye in any letter case, by a keyboard interrupt or by an exception
\* of the agent call, stop() has been called on every client whose start()
\* returned, whether or not an earlier stop() raised.
C28_CliCleanup ==
    (cli.pc = "ended" /\ cli.exit \in C28_Exits) =>
        C28_Range(construction.started) \subseteq C28_Range(cli.stopped)

\* C29: a command whose agent call raises leaves every analysis file as it
\* was, and the loop goes on to read the next command.
C29_CliFailureHandling ==
    [][ (cli'.commands = cli.commands + 1 /\ cli'.command.outcome.kind = "raise") =>
          /\ cli'.files = cli.files
          /\ cli'.pc = "loop" ]_vars

====
